---- MODULE Spec2Model ----
(***************************************************************************)
(* A model of vlc-playlist-generator (src/src/main.rs, src/src/xml.rs):    *)
(* the walk over the configured roots with the filter closure, the         *)
(* PendingNodeMap staging map, its realization into PlaylistNode trees,    *)
(* the sort, and the XSPF serializer.                                      *)
(*                                                                         *)
(* Strings are sequences of bytes, a path is the sequence of its           *)
(* components (the empty sequence is "/").                                 *)
(***************************************************************************)
EXTENDS Integers, Sequences, FiniteSets, TLC

VARIABLES roots, skip, sortImpl, pc, rootIdx, stack, last, calls,
          tracks, nodes, realized, sorted, doc

vars == <<roots, skip, sortImpl, pc, rootIdx, stack, last, calls,
          tracks, nodes, realized, sorted, doc>>

\* The largest number of --root arguments of a run.
MaxRoots == 2

----------------------------------------------------------------------------
\* Option<T>
NoneV == [some |-> FALSE]
Some(v) == [some |-> TRUE, val |-> v]

\* Byte strings used by the program.
Str_mkv == <<109, 107, 118>>
Str_mp4 == <<109, 112, 52>>
Str_question == <<63>>
Str_empty == <<>>
Str_no_title == <<60, 78, 111, 32, 116, 105, 116, 108, 101, 32, 97, 118, 97, 105,
                  108, 97, 98, 108, 101, 62>>

----------------------------------------------------------------------------
\* The directory tree on disk that the walker reads:
\*   /r/b.mkv  /r/s&/a.mp4  /r/s&/y.mp4  /e/n.txt  /e/l (a symbolic link)
P_r == << <<114>> >>
P_b == << <<114>>, <<98, 46, 109, 107, 118>> >>
P_s == << <<114>>, <<115, 38>> >>
P_a == << <<114>>, <<115, 38>>, <<97, 46, 109, 112, 52>> >>
P_y == << <<114>>, <<115, 38>>, <<121, 46, 109, 112, 52>> >>
P_e == << <<101>> >>
P_n == << <<101>>, <<110, 46, 116, 120, 116>> >>
P_l == << <<101>>, <<108>> >>

DiskDirs == {P_r, P_s, P_e}
DiskFiles == {P_b, P_a, P_y, P_n}
DiskOther == {P_l}
Disk == DiskDirs \cup DiskFiles \cup DiskOther

\* The paths a --root argument is drawn from: directories, nested
\* directories and a regular file.
RootCandidates == {P_r, P_s, P_e, P_b}
\* The --skip arguments of a run.
SkipCandidates == {<<>>, <<P_s>>}

\* An embedded Matroska title, with markup characters:  "<'
EmbeddedTitle == <<34, 60, 39>>

Parent(path) == SubSeq(path, 1, Len(path) - 1)
Children(dir) == {p \in Disk : Len(p) > 0 /\ Parent(p) = dir}

\* Path::file_name
file_name(path) == IF Len(path) = 0 THEN NoneV ELSE Some(path[Len(path)])

unwrap_or(opt, dflt) == IF opt.some THEN opt.val ELSE dflt

\* OsStr::to_str: Some only for valid UTF-8 (a byte above 127 standing alone
\* never is).
to_str(os) == IF \A i \in 1..Len(os) : os[i] < 128 THEN Some(os) ELSE NoneV

\* Path::extension: what follows the last '.' of the file name, unless the
\* only '.' is its first byte.
extension(path) ==
    IF Len(path) = 0 THEN NoneV
    ELSE LET name == path[Len(path)]
             dots == {i \in 2..Len(name) : name[i] = 46}
         IN IF dots = {} THEN NoneV
            ELSE LET d == CHOOSE i \in dots : \A j \in dots : j <= i
                 IN Some(SubSeq(name, d + 1, Len(name)))

----------------------------------------------------------------------------
\* PendingNode
PDir(title, node_paths) == [kind |-> "Dir", title |-> title, node_paths |-> node_paths]
PFile(idx, name) == [kind |-> "File", idx |-> idx, name |-> name]

\* HashMap::insert
Insert(m, k, v) == (k :> v) @@ m

\* PendingNodeMap::new: every root is registered as a Dir with no children.
RECURSIVE PendingNodeMap_new_from(_, _, _)
PendingNodeMap_new_from(rs, i, m) ==
    IF i > Len(rs) THEN m
    ELSE PendingNodeMap_new_from(rs, i + 1,
            Insert(m, rs[i],
                   PDir(unwrap_or(to_str(unwrap_or(file_name(rs[i]), Str_empty)),
                                  Str_question), <<>>)))

PendingNodeMap_new(rs) == PendingNodeMap_new_from(rs, 1, <<>>)

\* node_for_dir_of with the lookup of a missing parent of "/" answered
\* instead of unwrapped: the recursion stops at the filesystem root.
RECURSIVE node_for_dir_of_stops_at_top(_, _)
node_for_dir_of_stops_at_top(m, path) ==
    IF Len(path) = 0
    THEN [ok |-> TRUE, nodes |-> m]
    ELSE LET parent_path == Parent(path)
             name == unwrap_or(file_name(parent_path), Str_question)
             r == IF parent_path \notin DOMAIN m
                  THEN node_for_dir_of_stops_at_top(
                          Insert(m, parent_path,
                                 PDir(unwrap_or(to_str(name), Str_question), <<>>)),
                          parent_path)
                  ELSE [ok |-> TRUE, nodes |-> m]
         IN IF ~r.ok THEN r
            ELSE IF r.nodes[parent_path].kind = "Dir"
                 THEN [ok |-> TRUE,
                       nodes |-> [r.nodes EXCEPT ![parent_path].node_paths =
                                      Append(@, path)]]
                 ELSE [ok |-> FALSE, nodes |-> r.nodes]

\* node_for_dir_of with the insert moved out of the contains_key test: the
\* parent is inserted afresh on every call.
RECURSIVE node_for_dir_of_reinserts(_, _)
node_for_dir_of_reinserts(m, path) ==
    IF Len(path) = 0
    THEN [ok |-> FALSE, nodes |-> m]
    ELSE LET parent_path == Parent(path)
             name == unwrap_or(file_name(parent_path), Str_question)
             fresh == Insert(m, parent_path,
                             PDir(unwrap_or(to_str(name), Str_question), <<>>))
             r == IF parent_path \notin DOMAIN m
                  THEN node_for_dir_of_reinserts(fresh, parent_path)
                  ELSE [ok |-> TRUE, nodes |-> fresh]
         IN IF ~r.ok THEN r
            ELSE IF r.nodes[parent_path].kind = "Dir"
                 THEN [ok |-> TRUE,
                       nodes |-> [r.nodes EXCEPT ![parent_path].node_paths =
                                      Append(@, path)]]
                 ELSE [ok |-> FALSE, nodes |-> r.nodes]

\* PendingNodeMap::node_for_dir_of: the staging map after the call, and
\* whether the call returned (ok) or panicked.
RECURSIVE node_for_dir_of(_, _)
node_for_dir_of(m, path) ==
    IF Len(path) = 0
    THEN [ok |-> FALSE, nodes |-> m]
    ELSE LET parent_path == Parent(path)
             name == unwrap_or(file_name(parent_path), Str_question)
             r == IF parent_path \notin DOMAIN m
                  THEN node_for_dir_of(
                          Insert(m, parent_path,
                                 PDir(unwrap_or(to_str(name), Str_question), <<>>)),
                          parent_path)
                  ELSE [ok |-> TRUE, nodes |-> m]
         IN IF ~r.ok THEN r
            ELSE IF r.nodes[parent_path].kind = "Dir"
                 THEN [ok |-> TRUE,
                       nodes |-> [r.nodes EXCEPT ![parent_path].node_paths =
                                      Append(@, path)]]
                 ELSE [ok |-> FALSE, nodes |-> r.nodes]

\* PendingNodeMap::push_file
push_file(m, path, index) ==
    LET r == node_for_dir_of(m, path)
    IN IF ~r.ok THEN r
       ELSE [ok |-> TRUE,
             nodes |-> Insert(r.nodes, path, PFile(index, path[Len(path)]))]

----------------------------------------------------------------------------
\* What Matroska::open and Mp4Reader::read_header can report for a file.
MkvProbes == { NoneV,
               Some([duration |-> NoneV, title |-> NoneV]),
               Some([duration |-> Some(12), title |-> Some(EmbeddedTitle)]) }
Mp4Probes == { NoneV, Some([duration |-> 5]) }

\* mkv_meta
mkv_meta(path, probe) ==
    IF ~probe.some THEN NoneV
    ELSE Some([location |-> path,
               duration |-> unwrap_or(probe.val.duration, 0),
               title |-> IF probe.val.title.some THEN probe.val.title.val
                         ELSE unwrap_or(to_str(path[Len(path)]), Str_no_title)])

\* mp4_meta
mp4_meta(path, probe) ==
    IF ~probe.some THEN NoneV
    ELSE Some([location |-> path,
               duration |-> probe.val.duration,
               title |-> unwrap_or(to_str(path[Len(path)]), Str_no_title)])

\* The probes the filter can see for an entry.
ProbesOf(path) ==
    LET ext == extension(path)
    IN IF ext = Some(Str_mkv) THEN MkvProbes
       ELSE IF ext = Some(Str_mp4) THEN Mp4Probes
       ELSE {NoneV}

\* One accepted media file: push_file, then tracks.push.
accept(path, track, trs, m) ==
    LET r == push_file(m, path, Len(trs))
    IN IF r.ok
       THEN [ret |-> TRUE, panic |-> FALSE, event |-> "accepted", pushed |-> TRUE,
             tracks |-> Append(trs, track), nodes |-> r.nodes]
       ELSE [ret |-> FALSE, panic |-> TRUE, event |-> "panicked", pushed |-> TRUE,
             tracks |-> trs, nodes |-> r.nodes]

reject(event, ret, trs, m) ==
    [ret |-> ret, panic |-> FALSE, event |-> event, pushed |-> FALSE,
     tracks |-> trs, nodes |-> m]

\* filter with push_file and tracks.push run before the probe's answer is
\* looked at.
filter_pushes_first(sk, trs, m, path, metaOk, probe) ==
    IF ~metaOk THEN reject("metadata_error", FALSE, trs, m)
    ELSE IF path \in DiskFiles
    THEN LET ext == extension(path)
             blank == [location |-> path, duration |-> 0, title |-> Str_no_title]
             pushed == accept(path, blank, trs, m)
         IN IF ext = Some(Str_mkv)
            THEN LET t == mkv_meta(path, probe)
                 IN IF t.some THEN accept(path, t.val, trs, m)
                    ELSE reject("probe_failed", FALSE, pushed.tracks, pushed.nodes)
            ELSE IF ext = Some(Str_mp4)
            THEN LET t == mp4_meta(path, probe)
                 IN IF t.some THEN accept(path, t.val, trs, m)
                    ELSE reject("probe_failed", FALSE, pushed.tracks, pushed.nodes)
            ELSE reject("unsupported", FALSE, trs, m)
    ELSE IF path \in DiskDirs
    THEN IF \E i \in 1..Len(sk) : sk[i] = path
         THEN reject("skipped_dir", FALSE, trs, m)
         ELSE reject("dir", TRUE, trs, m)
    ELSE reject("other", FALSE, trs, m)

\* The closure filter returns, applied to one directory entry. metaOk is
\* whether entry.metadata() succeeded, probe what the container parser sees.
filter(sk, trs, m, path, metaOk, probe) ==
    IF ~metaOk THEN reject("metadata_error", FALSE, trs, m)
    ELSE IF path \in DiskFiles
    THEN LET ext == extension(path)
         IN IF ext = Some(Str_mkv)
            THEN LET t == mkv_meta(path, probe)
                 IN IF t.some THEN accept(path, t.val, trs, m)
                    ELSE reject("probe_failed", FALSE, trs, m)
            ELSE IF ext = Some(Str_mp4)
            THEN LET t == mp4_meta(path, probe)
                 IN IF t.some THEN accept(path, t.val, trs, m)
                    ELSE reject("probe_failed", FALSE, trs, m)
            ELSE reject("unsupported", FALSE, trs, m)
    ELSE IF path \in DiskDirs
    THEN IF \E i \in 1..Len(sk) : sk[i] = path
         THEN reject("skipped_dir", FALSE, trs, m)
         ELSE reject("dir", TRUE, trs, m)
    ELSE reject("other", FALSE, trs, m)

----------------------------------------------------------------------------
\* The walker's pending entries: one set per open directory, innermost
\* last; exhausted directories are closed.
RECURSIVE CloseExhausted(_)
CloseExhausted(st) ==
    IF Len(st) > 0 /\ st[Len(st)] = {} THEN CloseExhausted(SubSeq(st, 1, Len(st) - 1))
    ELSE st

RootSeqs == UNION { [1..n -> RootCandidates] : n \in 1..MaxRoots }

Init ==
    /\ roots \in RootSeqs
    /\ skip \in SkipCandidates
    /\ sortImpl \in {"Ord::cmp", "PartialOrd::lt"}
    /\ pc = "walk"
    /\ rootIdx = 0
    /\ stack = <<>>
    /\ last = [event |-> "start", path |-> <<>>]
    /\ calls = <<>>
    /\ tracks = <<>>
    /\ nodes = PendingNodeMap_new(roots)
    /\ realized = <<>>
    /\ sorted = <<>>
    /\ doc = <<>>

\* main: for root in args.root { WalkDir::new(root) ... }
StartRoot ==
    /\ pc = "walk"
    /\ stack = <<>>
    /\ rootIdx < Len(roots)
    /\ rootIdx' = rootIdx + 1
    /\ stack' = << {roots[rootIdx + 1]} >>
    /\ last' = [event |-> "root", path |-> roots[rootIdx + 1]]
    /\ UNCHANGED <<roots, skip, sortImpl, pc, calls, tracks, nodes, realized, sorted, doc>>

\* walker.filter_entry(&mut filter): the next entry, in the order the
\* directory is read, goes through the filter; a directory it lets through
\* is descended into.
FilterEntry ==
    /\ pc = "walk"
    /\ Len(stack) > 0
    /\ \E path \in stack[Len(stack)], metaOk \in BOOLEAN :
         \E probe \in ProbesOf(path) :
           LET r == filter(skip, tracks, nodes, path, metaOk, probe)
               rest == [stack EXCEPT ![Len(stack)] = @ \ {path}]
           IN /\ tracks' = r.tracks
              /\ nodes' = r.nodes
              /\ last' = [event |-> r.event, path |-> path]
              /\ calls' = IF r.pushed
                          THEN Append(calls, [path |-> path, index |-> Len(tracks)])
                          ELSE calls
              /\ pc' = IF r.panic THEN "panic" ELSE "walk"
              /\ stack' = IF r.ret /\ path \in DiskDirs
                          THEN CloseExhausted(Append(rest, Children(path)))
                          ELSE CloseExhausted(rest)
    /\ UNCHANGED <<roots, skip, sortImpl, rootIdx, realized, sorted, doc>>

----------------------------------------------------------------------------
\* PlaylistNode
Dir(title, ns) == [kind |-> "Dir", title |-> title, nodes |-> ns]
File(idx, name) == [kind |-> "File", idx |-> idx, name |-> name]

\* PlaylistNode::new
RECURSIVE PlaylistNode_new(_, _)
PlaylistNode_new(root, m) ==
    LET n == m[root]
    IN IF n.kind = "Dir"
       THEN Dir(n.title, [i \in 1..Len(n.node_paths) |->
                             PlaylistNode_new(n.node_paths[i], m)])
       ELSE File(n.idx, n.name)

\* PendingNodeMap::into_nodes
into_nodes(m, rs) == [i \in 1..Len(rs) |-> PlaylistNode_new(rs[i], m)]

\* Ordering: -1 Less, 0 Equal, 1 Greater.
cmp_int(a, b) == IF a < b THEN -1 ELSE IF a > b THEN 1 ELSE 0

\* The byte-wise, lexicographic comparison of String and OsString.
RECURSIVE cmp_bytes(_, _)
cmp_bytes(a, b) ==
    IF Len(a) = 0 \/ Len(b) = 0 THEN cmp_int(Len(a), Len(b))
    ELSE IF a[1] # b[1] THEN cmp_int(a[1], b[1])
    ELSE cmp_bytes(Tail(a), Tail(b))

\* impl PartialOrd for PlaylistNode: the hand-written comparison.
partial_cmp(a, b) ==
    IF a.kind = "Dir" /\ b.kind = "File" THEN -1
    ELSE IF a.kind = "File" /\ b.kind = "Dir" THEN 1
    ELSE IF a.kind = "Dir" THEN cmp_bytes(a.title, b.title)
    ELSE cmp_bytes(a.name, b.name)

\* #[derive(Ord)] on PlaylistNode: the variant first (Dir before File),
\* then the fields in declaration order: a Dir by its title and then its
\* nodes, a File by its index and then its name.
RECURSIVE derived_cmp(_, _)
RECURSIVE derived_cmp_vec(_, _)
derived_cmp(a, b) ==
    IF a.kind # b.kind THEN (IF a.kind = "Dir" THEN -1 ELSE 1)
    ELSE IF a.kind = "Dir"
    THEN LET c == cmp_bytes(a.title, b.title)
         IN IF c # 0 THEN c ELSE derived_cmp_vec(a.nodes, b.nodes)
    ELSE LET c == cmp_int(a.idx, b.idx)
         IN IF c # 0 THEN c ELSE cmp_bytes(a.name, b.name)

derived_cmp_vec(xs, ys) ==
    IF Len(xs) = 0 \/ Len(ys) = 0 THEN cmp_int(Len(xs), Len(ys))
    ELSE LET c == derived_cmp(xs[1], ys[1])
         IN IF c # 0 THEN c ELSE derived_cmp_vec(Tail(xs), Tail(ys))

\* The is-less test slice::sort runs on two elements. The slice is sorted
\* through T: Ord, whose derived cmp disagrees with the hand-written
\* partial_cmp; which of the two the library consults is not specified for
\* such a type, so a build is either.
is_less(impl, a, b) ==
    IF impl = "Ord::cmp" THEN derived_cmp(a, b) = -1
    ELSE partial_cmp(a, b) = -1

\* slice::sort: a stable sort.
RECURSIVE insert_sorted(_, _, _)
insert_sorted(impl, xs, x) ==
    IF Len(xs) = 0 THEN <<x>>
    ELSE IF is_less(impl, x, xs[Len(xs)])
         THEN Append(insert_sorted(impl, SubSeq(xs, 1, Len(xs) - 1), x), xs[Len(xs)])
         ELSE Append(xs, x)

RECURSIVE slice_sort_from(_, _, _, _)
slice_sort_from(impl, xs, i, acc) ==
    IF i > Len(xs) THEN acc
    ELSE slice_sort_from(impl, xs, i + 1, insert_sorted(impl, acc, xs[i]))

slice_sort(impl, xs) == slice_sort_from(impl, xs, 1, <<>>)

\* PlaylistNode::sort
RECURSIVE PlaylistNode_sort(_, _)
PlaylistNode_sort(impl, n) ==
    IF n.kind = "Dir"
    THEN LET s == slice_sort(impl, n.nodes)
         IN Dir(n.title, [i \in 1..Len(s) |-> PlaylistNode_sort(impl, s[i])])
    ELSE n

\* main: nodes.sort(); for n in nodes { n.sort() }
sort_nodes(impl, ns) ==
    LET s == slice_sort(impl, ns)
    IN [i \in 1..Len(s) |-> PlaylistNode_sort(impl, s[i])]

----------------------------------------------------------------------------
\* Formatting.
RECURSIVE Flatten(_)
Flatten(ss) == IF Len(ss) = 0 THEN <<>> ELSE ss[1] \o Flatten(Tail(ss))

\* Display for usize: the decimal digits.
RECURSIVE to_decimal(_)
to_decimal(n) ==
    IF n < 10 THEN <<48 + n>>
    ELSE Append(to_decimal(n \div 10), 48 + (n % 10))

\* html_escape::encode_text escapes & < > and nothing else.
encode_text_byte(b) ==
    IF b = 38 THEN <<38, 97, 109, 112, 59>>
    ELSE IF b = 60 THEN <<38, 108, 116, 59>>
    ELSE IF b = 62 THEN <<38, 103, 116, 59>>
    ELSE <<b>>

encode_text(s) == Flatten([i \in 1..Len(s) |-> encode_text_byte(s[i])])

\* url_escape::encode_component: every byte is percent-encoded except the
\* ASCII letters and digits and  ! ' ( ) * - . _ ~
ComponentSafe ==
    (48..57) \cup (65..90) \cup (97..122) \cup {33, 39, 40, 41, 42, 45, 46, 95, 126}

hex_digit(d) == IF d < 10 THEN 48 + d ELSE 55 + d

encode_component_byte(b) ==
    IF b \in ComponentSafe THEN <<b>>
    ELSE <<37, hex_digit(b \div 16), hex_digit(b % 16)>>

encode_component(s) == Flatten([i \in 1..Len(s) |-> encode_component_byte(s[i])])

\* Path::to_string_lossy of an absolute path: the components after '/',
\* a byte that is not UTF-8 replaced by U+FFFD.
lossy_byte(b) == IF b < 128 THEN <<b>> ELSE <<239, 191, 189>>

to_string_lossy(path) ==
    IF Len(path) = 0 THEN <<47>>
    ELSE Flatten([i \in 1..Len(path) |->
                     <<47>> \o Flatten([j \in 1..Len(path[i]) |-> lossy_byte(path[i][j])])])

Str_file_scheme == <<102, 105, 108, 101, 58, 47, 47>>
Str_media_library == <<77, 101, 100, 105, 97, 32, 76, 105, 98, 114, 97, 114, 121>>

\* One written line: the tabs, the literal markup around the formatted
\* value, and the formatted value as bytes.
Line(indent, open, text, close) ==
    [indent |-> indent, open |-> open, text |-> text, close |-> close]

\* nodes_into_xml
RECURSIVE nodes_into_xml(_, _)
nodes_into_xml(ns, indent) ==
    Flatten([i \in 1..Len(ns) |->
        IF ns[i].kind = "File"
        THEN << Line(indent, "<vlc:item tid=\"", to_decimal(ns[i].idx), "\"/>") >>
        ELSE << Line(indent, "<vlc:node title=\"", ns[i].title, "\">") >>
             \o nodes_into_xml(ns[i].nodes, indent + 1)
             \o << Line(indent, "</vlc:node>", <<>>, "") >>])

track_into_xml(idx, track) ==
    << Line(2, "<track>", <<>>, ""),
       Line(3, "<location>",
            Str_file_scheme \o encode_component(to_string_lossy(track.location)),
            "</location>"),
       Line(3, "<title>", encode_text(track.title), "</title>"),
       Line(3, "<duration>", to_decimal(track.duration), "</duration>"),
       Line(3, "<extension application=\"http://www.videolan.org/vlc/playlist/0\">",
            <<>>, ""),
       Line(4, "<vlc:id>", to_decimal(idx), "</vlc:id>"),
       Line(3, "</extension>", <<>>, ""),
       Line(2, "</track>", <<>>, "") >>

\* into_xml
into_xml(trs, ns) ==
    << Line(0, "<?xml version=\"1.0\" encoding=\"UTF-8\"?>", <<>>, ""),
       Line(0, "<playlist xmlns=\"http://xspf.org/ns/0/\" xmlns:vlc=\"http://www.videolan.org/vlc/playlist/ns/0/\" version=\"1\">",
            <<>>, ""),
       Line(1, "<title>", Str_media_library, "</title>"),
       Line(1, "<trackList>", <<>>, "") >>
    \o Flatten([i \in 1..Len(trs) |-> track_into_xml(i - 1, trs[i])])
    \o << Line(1, "</trackList>", <<>>, ""),
          Line(1, "<extension application=\"http://www.videolan.org/vlc/playlist/0\">",
               <<>>, "") >>
    \o nodes_into_xml(ns, 2)
    \o << Line(1, "</extension>", <<>>, ""),
          Line(0, "</playlist>", <<>>, "") >>

----------------------------------------------------------------------------
\* main: let mut nodes = nodes.into_nodes();
Realize ==
    /\ pc = "walk"
    /\ stack = <<>>
    /\ rootIdx = Len(roots)
    /\ realized' = into_nodes(nodes, roots)
    /\ pc' = "realized"
    /\ last' = [event |-> "into_nodes", path |-> <<>>]
    /\ UNCHANGED <<roots, skip, sortImpl, rootIdx, stack, calls, tracks, nodes, sorted, doc>>

\* main: nodes.sort(); for n in nodes.as_mut_slice() { n.sort(); }
SortNodes ==
    /\ pc = "realized"
    /\ sorted' = sort_nodes(sortImpl, realized)
    /\ pc' = "sorted"
    /\ last' = [event |-> "sort", path |-> <<>>]
    /\ UNCHANGED <<roots, skip, sortImpl, rootIdx, stack, calls, tracks, nodes, realized, doc>>

\* main: into_xml(&mut writer, playlist)
Render ==
    /\ pc = "sorted"
    /\ doc' = into_xml(tracks, sorted)
    /\ pc' = "done"
    /\ last' = [event |-> "into_xml", path |-> <<>>]
    /\ UNCHANGED <<roots, skip, sortImpl, rootIdx, stack, calls, tracks, nodes, realized, sorted>>

Next == StartRoot \/ FilterEntry \/ Realize \/ SortNodes \/ Render

Spec == Init /\ [][Next]_vars
----------------------------------------------------------------------------
\* Vocabulary of the properties.
RootSet == {roots[i] : i \in 1..Len(roots)}
IsProperPrefix(a, b) == Len(a) < Len(b) /\ SubSeq(b, 1, Len(a)) = a
IsPrefixSeq(a, b) == Len(a) <= Len(b) /\ SubSeq(b, 1, Len(a)) = a
UnderSomeRoot(path) == \E r \in RootSet : IsProperPrefix(r, path)
Distinct(seq) == \A i, j \in 1..Len(seq) : i # j => seq[i] # seq[j]
CallPaths == [i \in 1..Len(calls) |-> calls[i].path]
Count(seq, x) == Cardinality({i \in 1..Len(seq) : seq[i] = x})
Realized == pc \in {"realized", "sorted", "done"}

\* The Leaves of a forest, in document order.
RECURSIVE Leaves(_)
Leaves(ns) ==
    Flatten([i \in 1..Len(ns) |->
                IF ns[i].kind = "File" THEN <<ns[i]>> ELSE Leaves(ns[i].nodes)])

\* Every list of siblings of a forest: the top level and the children of
\* every Directory.
RECURSIVE SiblingLists(_)
SiblingLists(ns) ==
    {ns} \cup UNION {SiblingLists(ns[i].nodes) : i \in {j \in 1..Len(ns) : ns[j].kind = "Dir"}}

----------------------------------------------------------------------------
\* C1: once the walk is over and the staging map realized, the Leaf indices
\* of the realized tree are exactly 0..N-1, each once, N the size of the
\* Track Registry.
C1_LeafIndicesAreRegistry ==
    Realized =>
        LET ls == Leaves(realized)
        IN /\ Len(ls) = Len(tracks)
           /\ {ls[i].idx : i \in 1..Len(ls)} = 0..(Len(tracks) - 1)

----------------------------------------------------------------------------
\* C2: after the sort, at every sibling level every Directory precedes
\* every Leaf, Directories are in byte order of their titles and Leaves in
\* byte order of their file names, whatever their track indices.
OrderedAsClaimed(a, b) ==
    IF a.kind = "Dir" /\ b.kind = "File" THEN TRUE
    ELSE IF a.kind = "File" /\ b.kind = "Dir" THEN FALSE
    ELSE IF a.kind = "Dir" THEN cmp_bytes(a.title, b.title) <= 0
    ELSE cmp_bytes(a.name, b.name) <= 0

----------------------------------------------------------------------------
\* C3: for the same roots and the same accepted files, every order of
\* discovery gives the same sorted tree, the Leaves' indices left aside.
RECURSIVE StripIndex(_)
StripIndex(ns) ==
    [i \in 1..Len(ns) |->
        IF ns[i].kind = "File" THEN File(0, ns[i].name)
        ELSE Dir(ns[i].title, StripIndex(ns[i].nodes))]

RECURSIVE PushAll(_, _, _)
PushAll(m, paths, i) ==
    IF i > Len(paths) THEN m
    ELSE PushAll(push_file(m, paths[i], i - 1).nodes, paths, i + 1)

SortedTreeOf(paths) ==
    sort_nodes(sortImpl, into_nodes(PushAll(PendingNodeMap_new(roots), paths, 1), roots))

Orders(paths) ==
    {[i \in 1..Len(paths) |-> paths[f[i]]] :
        f \in {g \in [1..Len(paths) -> 1..Len(paths)] : Distinct(g)}}

----------------------------------------------------------------------------
\* C4: a file whose probe fails leaves the Track Registry and the staging
\* map as they were, so that every Directory of the staging map is still a
\* configured root or an ancestor of a file that was registered.
DirsAreRootsOrAncestors ==
    \A k \in DOMAIN nodes :
        nodes[k].kind = "Dir" =>
            \/ k \in RootSet
            \/ \E i \in 1..Len(calls) : IsProperPrefix(k, calls[i].path)

C4_FailedProbeChangesNothing ==
    [][last'.event = "probe_failed" =>
          /\ tracks' = tracks
          /\ nodes' = nodes
          /\ calls' = calls
          /\ DirsAreRootsOrAncestors']_vars

C4_Witness ==
    /\ last.event = "probe_failed"
    /\ Len(tracks) > 0
    /\ \E k \in DOMAIN nodes : k \notin RootSet

----------------------------------------------------------------------------
\* C5: push_file on a path under no configured root ends in a panic: the
\* run never goes on, and neither a realized tree nor a document exists.
C5_OutsideRootsPanics ==
    \A i \in 1..Len(calls) :
        ~UnderSomeRoot(calls[i].path) =>
            /\ pc = "panic"
            /\ realized = <<>>
            /\ sorted = <<>>
            /\ doc = <<>>

C5_Witness ==
    /\ pc = "panic"
    /\ Len(calls) > 0
    /\ ~UnderSomeRoot(calls[Len(calls)].path)

----------------------------------------------------------------------------
\* C6: in the document the i-th track element carries vlc:id i and the
\* location, title and duration of the i-th Registry entry; the tids of the
\* vlc:item elements are pairwise distinct, and each is the vlc:id of the
\* track made for the file its Leaf was registered for.
LinesOf(open, indent) == SelectSeq(doc, LAMBDA l : l.open = open /\ l.indent = indent)
ItemLines == SelectSeq(doc, LAMBDA l : l.open = "<vlc:item tid=\"")
NodeLines == SelectSeq(doc, LAMBDA l : l.open = "<vlc:node title=\"")

StartsWith(s, pre) == Len(pre) <= Len(s) /\ SubSeq(s, 1, Len(pre)) = pre
Drop(s, n) == SubSeq(s, n + 1, Len(s))

\* Reading the document back: a decimal number, character references,
\* percent-encoded bytes.
RECURSIVE read_decimal(_)
read_decimal(s) ==
    IF Len(s) = 0 THEN 0
    ELSE 10 * read_decimal(SubSeq(s, 1, Len(s) - 1)) + (s[Len(s)] - 48)

RECURSIVE read_text(_)
read_text(s) ==
    IF Len(s) = 0 THEN <<>>
    ELSE IF StartsWith(s, <<38, 97, 109, 112, 59>>) THEN <<38>> \o read_text(Drop(s, 5))
    ELSE IF StartsWith(s, <<38, 108, 116, 59>>) THEN <<60>> \o read_text(Drop(s, 4))
    ELSE IF StartsWith(s, <<38, 103, 116, 59>>) THEN <<62>> \o read_text(Drop(s, 4))
    ELSE IF StartsWith(s, <<38, 113, 117, 111, 116, 59>>) THEN <<34>> \o read_text(Drop(s, 6))
    ELSE IF StartsWith(s, <<38, 97, 112, 111, 115, 59>>) THEN <<39>> \o read_text(Drop(s, 6))
    ELSE <<s[1]>> \o read_text(Drop(s, 1))

hex_value(c) == IF c <= 57 THEN c - 48 ELSE c - 55

RECURSIVE read_uri(_)
read_uri(s) ==
    IF Len(s) = 0 THEN <<>>
    ELSE IF s[1] = 37 /\ Len(s) >= 3
         THEN <<16 * hex_value(s[2]) + hex_value(s[3])>> \o read_uri(Drop(s, 3))
         ELSE <<s[1]>> \o read_uri(Drop(s, 1))

\* An absolute path as text: '/' before every component.
PathText(path) == Flatten([i \in 1..Len(path) |-> <<47>> \o path[i]])

C6_DocumentCrossReferences ==
    pc = "done" =>
        LET ids == LinesOf("<vlc:id>", 4)
            locs == LinesOf("<location>", 3)
            titles == LinesOf("<title>", 3)
            durs == LinesOf("<duration>", 3)
            tids == [k \in 1..Len(ItemLines) |-> read_decimal(ItemLines[k].text)]
        IN /\ Len(ids) = Len(tracks) /\ Len(locs) = Len(tracks)
           /\ Len(titles) = Len(tracks) /\ Len(durs) = Len(tracks)
           /\ \A i \in 1..Len(tracks) :
                 /\ read_decimal(ids[i].text) = i - 1
                 /\ read_uri(locs[i].text) = Str_file_scheme \o PathText(tracks[i].location)
                 /\ read_text(titles[i].text) = tracks[i].title
                 /\ read_decimal(durs[i].text) = tracks[i].duration
           /\ Distinct(tids)
           /\ \A k \in 1..Len(tids) :
                 /\ tids[k] < Len(tracks)
                 /\ \E j \in 1..Len(calls) :
                       /\ calls[j].index = tids[k]
                       /\ tracks[tids[k] + 1].location = calls[j].path
                       /\ Leaves(sorted)[k].name = calls[j].path[Len(calls[j].path)]

----------------------------------------------------------------------------
\* C7: realizing gives one top-level node per configured root, in the
\* order of the roots, each of them a Directory.
RootTitle(path) == unwrap_or(to_str(unwrap_or(file_name(path), Str_empty)), Str_question)

C7_RootsAreTopLevelDirs ==
    Realized =>
        /\ Len(realized) = Len(roots)
        /\ \A i \in 1..Len(realized) :
              /\ realized[i].kind = "Dir"
              /\ realized[i].title = RootTitle(roots[i])

----------------------------------------------------------------------------
\* C8: every Directory of the realized tree is a configured root or an
\* ancestor of an accepted file that is a Leaf below it; a Directory with
\* no Leaf below it is a configured root under which no file was accepted.
RECURSIVE DirsWithPaths(_, _)
DirsWithPaths(node, path) ==
    IF node.kind = "File" THEN {}
    ELSE {[node |-> node, path |-> path]} \cup
         UNION {DirsWithPaths(node.nodes[i],
                              Append(path, IF node.nodes[i].kind = "File"
                                           THEN node.nodes[i].name
                                           ELSE node.nodes[i].title)) :
                   i \in 1..Len(node.nodes)}

RECURSIVE LeafPaths(_, _)
LeafPaths(node, path) ==
    IF node.kind = "File" THEN {path}
    ELSE UNION {LeafPaths(node.nodes[i],
                          Append(path, IF node.nodes[i].kind = "File"
                                       THEN node.nodes[i].name
                                       ELSE node.nodes[i].title)) :
                   i \in 1..Len(node.nodes)}

AcceptedPaths == {tracks[i].location : i \in 1..Len(tracks)}

C8_NoOrphanDirectories ==
    Realized =>
        \A i \in 1..Len(realized) :
            \A d \in DirsWithPaths(realized[i], roots[i]) :
                LET below == LeafPaths(d.node, d.path) \cap AcceptedPaths
                IN /\ d.path \in RootSet \/ below # {}
                   /\ below = {} =>
                         /\ d.path \in RootSet
                         /\ ~\E p \in AcceptedPaths : IsProperPrefix(d.path, p)

----------------------------------------------------------------------------
\* C9: every title written into the document, a track's title element and
\* a Directory's title attribute, has no raw  < > " '  and no '&' other
\* than the one that opens an escape.
EscapeName == (48..57) \cup (65..90) \cup (97..122) \cup {35}

IsEscaped(text) ==
    \A i \in 1..Len(text) :
        /\ text[i] \notin {60, 62, 34, 39}
        /\ text[i] = 38 =>
              \E j \in (i + 2)..Len(text) :
                  /\ text[j] = 59
                  /\ \A k \in (i + 1)..(j - 1) : text[k] \in EscapeName

C9_TitlesAreEscaped ==
    pc = "done" =>
        /\ \A i \in 1..Len(LinesOf("<title>", 3)) : IsEscaped(LinesOf("<title>", 3)[i].text)
        /\ \A i \in 1..Len(NodeLines) : IsEscaped(NodeLines[i].text)

----------------------------------------------------------------------------
\* C10: while the registered paths are pairwise distinct and under a
\* configured root, every key of the staging map that is not a root is
\* listed exactly once by its parent's Directory and by no other, and a
\* Directory that an incoming file has as an ancestor keeps the children it
\* has accumulated.
ChildListedOnce ==
    \A k \in DOMAIN nodes \ RootSet :
        /\ Len(k) > 0
        /\ Parent(k) \in DOMAIN nodes
        /\ nodes[Parent(k)].kind = "Dir"
        /\ Count(nodes[Parent(k)].node_paths, k) = 1
        /\ \A d \in DOMAIN nodes \ {Parent(k)} :
              nodes[d].kind = "Dir" => Count(nodes[d].node_paths, k) = 0

WellFormedCalls ==
    /\ pc # "panic"
    /\ Distinct(CallPaths)
    /\ \A i \in 1..Len(calls) : UnderSomeRoot(calls[i].path)

C10_ChildListsAccumulate ==
    [][WellFormedCalls' =>
          /\ ChildListedOnce'
          /\ Len(calls') > Len(calls) =>
                \A d \in DOMAIN nodes :
                    (nodes[d].kind = "Dir" /\ IsProperPrefix(d, calls'[Len(calls')].path)) =>
                        /\ d \in DOMAIN nodes'
                        /\ nodes'[d].kind = "Dir"
                        /\ IsPrefixSeq(nodes[d].node_paths, nodes'[d].node_paths)]_vars

C10_Witness ==
    /\ WellFormedCalls
    /\ Len(calls) = 3
    /\ P_s \in DOMAIN nodes \ RootSet
    /\ Len(nodes[P_s].node_paths) = 2
    /\ calls[1].path = P_a
====
